---- MODULE Spec2Model ----
(***************************************************************************)
(* The Notes controller (server/controllers/notesController.js): five      *)
(* Express request handlers over a process-local array `notes` and an      *)
(* auto-incrementing counter `nextId`.  Node runs each handler to          *)
(* completion on its single thread, so one handler call is one step.       *)
(***************************************************************************)
EXTENDS Integers, Naturals, Sequences, FiniteSets, TLC

(***************************************************************************)
(* Bounds of the model.                                                    *)
(***************************************************************************)
\* successful creates that are explored (the cap on nextId)
MaxCreates == 2
\* handler calls that are explored in one run
MaxCalls == 4
\* the instant, in ms, the clock shows when the process starts
StartTime == 999
\* how many ms the clock advances during a run
MaxTicks == 1

LastTime == StartTime + MaxTicks

(***************************************************************************)
(* JavaScript values a parsed JSON body can carry in title and content.    *)
(* A value is a record of its typeof-kind and its content; Undefined is    *)
(* what destructuring yields for a property the body does not have.        *)
(***************************************************************************)
Undefined == [t |-> "undefined", v |-> "undefined"]
Str(s) == [t |-> "string", v |-> s]

\* the title and the content values the requests are drawn from: missing,
\* the empty string, and a text
TitleValues == {Undefined, Str(""), Str("T")}
ContentValues == {Undefined, Str(""), Str("C")}

\* the parsed request bodies: express.json() always leaves an object
Bodies == [title : TitleValues, content : ContentValues]

\* JavaScript ToBoolean, as `!title` applies it
Truthy(x) ==
    CASE x.t = "undefined" -> FALSE
      [] x.t = "null"      -> FALSE
      [] x.t = "string"    -> x.v # ""
      [] x.t = "number"    -> x.v # "0" /\ x.v # "NaN"
      [] x.t = "boolean"   -> x.v = "true"
      [] OTHER             -> TRUE

(***************************************************************************)
(* The :id route parameter is text; a text is a sequence of characters.    *)
(***************************************************************************)
DigitChar(d) ==
    CASE d = 0 -> "0" [] d = 1 -> "1" [] d = 2 -> "2" [] d = 3 -> "3"
      [] d = 4 -> "4" [] d = 5 -> "5" [] d = 6 -> "6" [] d = 7 -> "7"
      [] d = 8 -> "8" [] d = 9 -> "9"

\* `/api/v1/notes/${id}`: the decimal text a client writes for the id n
RECURSIVE String(_)
String(n) ==
    IF n < 10 THEN <<DigitChar(n)>>
    ELSE String(n \div 10) \o <<DigitChar(n % 10)>>

\* the id texts the requests are drawn from: every id a run can assign, one
\* more that no run assigns, and a text that is no number
IdTexts == {String(n) : n \in 1..(MaxCreates + 1)} \cup {<<"a", "b", "c">>}

IsDigit(c) == c \in {"0", "1", "2", "3", "4", "5", "6", "7", "8", "9"}

DigitVal(c) ==
    CASE c = "0" -> 0 [] c = "1" -> 1 [] c = "2" -> 2 [] c = "3" -> 3
      [] c = "4" -> 4 [] c = "5" -> 5 [] c = "6" -> 6 [] c = "7" -> 7
      [] c = "8" -> 8 [] c = "9" -> 9

IsWhiteSpace(c) == c = " "

RECURSIVE StripLeading(_)
StripLeading(s) ==
    IF s # <<>> /\ IsWhiteSpace(Head(s)) THEN StripLeading(Tail(s)) ELSE s

\* the longest prefix of s that consists of digits
RECURSIVE DigitPrefix(_)
DigitPrefix(s) ==
    IF s # <<>> /\ IsDigit(Head(s))
    THEN <<Head(s)>> \o DigitPrefix(Tail(s))
    ELSE <<>>

RECURSIVE DecimalValue(_, _)
DecimalValue(ds, acc) ==
    IF ds = <<>> THEN acc
    ELSE DecimalValue(Tail(ds), 10 * acc + DigitVal(Head(ds)))

NaN == [nan |-> TRUE, n |-> 0]

\* parseInt(text) with no radix, on texts that have no 0x prefix: leading
\* white space is skipped, a sign is read, then the longest run of digits;
\* what follows the digits is ignored, and no digit at all gives NaN
parseInt(text) ==
    LET s    == StripLeading(text)
        neg  == s # <<>> /\ Head(s) = "-"
        rest == IF s # <<>> /\ Head(s) \in {"-", "+"} THEN Tail(s) ELSE s
        ds   == DigitPrefix(rest)
    IN  IF ds = <<>> THEN NaN
        ELSE [nan |-> FALSE,
              n   |-> IF neg THEN 0 - DecimalValue(ds, 0) ELSE DecimalValue(ds, 0)]

\* n.id === parseInt(id): NaN is strictly equal to nothing
StrictEq(noteId, parsed) == ~parsed.nan /\ parsed.n = noteId

(***************************************************************************)
(* new Date().toISOString(): the instant d (ms since the epoch) written    *)
(* most significant field first, each field of fixed width.  The fields    *)
(* kept here are the whole seconds and the milliseconds within the second. *)
(***************************************************************************)
toISOString(d) == [sec |-> d \div 1000, ms |-> d % 1000]

(***************************************************************************)
(* State.                                                                  *)
(***************************************************************************)
VARIABLES
    notes,   \* let notes = []: the stored notes, in insertion order
    nextId,  \* let nextId = 1: the id the next created note gets
    now,     \* the instant new Date() reads
    req,     \* the request the last handler call received
    res,     \* the response the last handler call sent: [status, body]
    calls,   \* the number of handler calls made so far
    issued,  \* history: the ids of the notes the 201 responses carried, in order
    intact,  \* history: the notes as create returned them, until an update or
             \* delete request names their id
    deleted, \* history: the ids of the notes the delete 200 responses carried
    inflight, \* per caller: the request Express has received and not yet
              \* handed to its handler (<<>> when there is none)
    replies,  \* per caller: the response to its last request (<<>> while the
              \* request is in flight)
    sent      \* the statuses of the envelopes the last handler call passed to
              \* res.json, one after the other, where the calls are followed
              \* statement by statement

vars ==
    <<notes, nextId, now, req, res, calls, issued, intact, deleted, inflight, replies,
      sent>>

\* the clients that have a request in flight at the same time
Callers == {"a", "b"}

Init ==
    /\ notes = <<>>
    /\ nextId = 1
    /\ now = StartTime
    /\ req = [op |-> "none"]
    /\ res = [status |-> 0]
    /\ calls = 0
    /\ issued = <<>>
    /\ intact = {}
    /\ deleted = {}
    /\ inflight = [c \in Callers |-> <<>>]
    /\ replies = [c \in Callers |-> <<>>]
    /\ sent = <<>>

\* the clock advances between and inside handler calls, never backwards
Tick ==
    /\ now < LastTime
    /\ now' = now + 1
    /\ UNCHANGED <<notes, nextId, req, res, calls, issued, intact, deleted>>
    /\ UNCHANGED <<inflight, replies, sent>>

\* find with a callback that is true of every note: the first note, whatever id
findIgnoringId(ns, id) ==
    IF ns = <<>> THEN <<>> ELSE <<ns[1]>>

\* notes.find(n => n.id === parseInt(id)): the first match, or no note
find(ns, id) ==
    LET wanted == parseInt(id)
        hits   == {i \in 1..Len(ns) : StrictEq(ns[i].id, wanted)}
    IN  IF hits = {} THEN <<>>
        ELSE <<ns[CHOOSE i \in hits : \A j \in hits : i <= j]>>

\* notes.findIndex(n => n.id === parseInt(id)): the first match (from 1), or -1
findIndex(ns, id) ==
    LET wanted == parseInt(id)
        hits   == {i \in 1..Len(ns) : StrictEq(ns[i].id, wanted)}
    IN  IF hits = {} THEN -1
        ELSE CHOOSE i \in hits : \A j \in hits : i <= j

\* notes.slice(noteIndex, 1) for splice: slice copies and leaves notes alone
sliceForSplice(ns, noteIndex) == ns

\* notes.splice(noteIndex) without the count: every element from noteIndex
\* on is removed
spliceToEnd(ns, noteIndex) == SubSeq(ns, 1, noteIndex - 1)

\* notes.splice(noteIndex, 1): the array without the element at noteIndex
splice(ns, noteIndex) ==
    [i \in 1..(Len(ns) - 1) |-> IF i < noteIndex THEN ns[i] ELSE ns[i + 1]]

\* the validation with && for ||: only a request that lacks both is rejected
invalidWhenBothMissing(title, content) == ~Truthy(title) /\ ~Truthy(content)

\* if (!title || !content): the validation createNote applies
invalid(title, content) == ~Truthy(title) \/ ~Truthy(content)

\* title.trim() on the texts the model writes: the text without the white
\* space at its ends
trim(x) == IF x = Str(" T ") THEN Str("T") ELSE x

\* newNote with title: title.trim() and content: content.trim()
newNoteTrimming(id, title, content, t1, t2) ==
    [id        |-> id,
     title     |-> trim(title),
     content   |-> trim(content),
     createdAt |-> toISOString(t1),
     updatedAt |-> toISOString(t2)]

\* newNote with updatedAt written before createdAt in the object literal: the
\* first reading of the clock goes to updatedAt
newNoteUpdatedAtFirst(id, title, content, t1, t2) ==
    [id        |-> id,
     title     |-> title,
     content   |-> content,
     createdAt |-> toISOString(t2),
     updatedAt |-> toISOString(t1)]

\* const newNote = {...}: createdAt and updatedAt are two readings of the
\* clock, the first at t1 and the second at t2
newNote(id, title, content, t1, t2) ==
    [id        |-> id,
     title     |-> title,
     content   |-> content,
     createdAt |-> toISOString(t1),
     updatedAt |-> toISOString(t2)]

\* updated with if (title) for if (title !== undefined): a falsy value that
\* was supplied does not overwrite
updatedIfTruthy(note, title, content, t) ==
    LET n1 == IF Truthy(title) THEN [note EXCEPT !.title = title] ELSE note
        n2 == IF Truthy(content) THEN [n1 EXCEPT !.content = content] ELSE n1
    IN  [n2 EXCEPT !.updatedAt = toISOString(t)]

\* updated without line 113: updatedAt is left as it was
updatedKeepingUpdatedAt(note, title, content, t) ==
    LET n1 == IF title # Undefined THEN [note EXCEPT !.title = title] ELSE note
    IN  IF content # Undefined THEN [n1 EXCEPT !.content = content] ELSE n1

\* updated that refreshes updatedAt only when a field was supplied
updatedTouchingOnChange(note, title, content, t) ==
    LET n1 == IF title # Undefined THEN [note EXCEPT !.title = title] ELSE note
        n2 == IF content # Undefined THEN [n1 EXCEPT !.content = content] ELSE n1
    IN  IF title = Undefined /\ content = Undefined
        THEN note
        ELSE [n2 EXCEPT !.updatedAt = toISOString(t)]

\* "Update only provided fields", then notes[noteIndex].updatedAt = now
updated(note, title, content, t) ==
    LET n1 == IF title # Undefined THEN [note EXCEPT !.title = title] ELSE note
        n2 == IF content # Undefined THEN [n1 EXCEPT !.content = content] ELSE n1
    IN  [n2 EXCEPT !.updatedAt = toISOString(t)]

NotFound ==
    [status |-> 404, body |-> [success |-> FALSE, message |-> "Note not found"]]

\* createNote with id: notes.length + 1 in place of id: nextId++
createNoteIdFromLength(body) ==
    LET title   == body.title
        content == body.content
    IN  /\ req' = [op |-> "createNote", body |-> body]
        /\ IF invalid(title, content)
           THEN /\ res' = [status |-> 400,
                           body |-> [success |-> FALSE,
                                     message |-> "Title and content are required"]]
                /\ UNCHANGED <<notes, nextId, now>>
           ELSE /\ nextId <= MaxCreates
                /\ \E t2 \in now..LastTime :
                     LET note == newNote(Len(notes) + 1, title, content, now, t2)
                     IN  /\ nextId' = nextId + 1
                         /\ notes' = Append(notes, note)
                         /\ now' = t2
                         /\ res' = [status |-> 201,
                                    body |-> [success |-> TRUE,
                                              message |-> "Note created successfully",
                                              data |-> note]]

\* createNote answering 200, like the other handlers, in place of 201
createNoteAnswering200(body) ==
    LET title   == body.title
        content == body.content
    IN  /\ req' = [op |-> "createNote", body |-> body]
        /\ IF invalid(title, content)
           THEN /\ res' = [status |-> 400,
                           body |-> [success |-> FALSE,
                                     message |-> "Title and content are required"]]
                /\ UNCHANGED <<notes, nextId, now>>
           ELSE /\ nextId <= MaxCreates
                /\ \E t2 \in now..LastTime :
                     LET note == newNote(nextId, title, content, now, t2)
                     IN  /\ nextId' = nextId + 1
                         /\ notes' = Append(notes, note)
                         /\ now' = t2
                         /\ res' = [status |-> 200,
                                    body |-> [success |-> TRUE,
                                              message |-> "Note created successfully",
                                              data |-> note]]

\* createNote that takes the id (const id = nextId++) before it validates
createNoteIdBeforeValidation(body) ==
    LET title   == body.title
        content == body.content
    IN  /\ req' = [op |-> "createNote", body |-> body]
        /\ nextId <= MaxCreates
        /\ nextId' = nextId + 1
        /\ IF invalid(title, content)
           THEN /\ res' = [status |-> 400,
                           body |-> [success |-> FALSE,
                                     message |-> "Title and content are required"]]
                /\ UNCHANGED <<notes, now>>
           ELSE \E t2 \in now..LastTime :
                     LET note == newNote(nextId, title, content, now, t2)
                     IN  /\ notes' = Append(notes, note)
                         /\ now' = t2
                         /\ res' = [status |-> 201,
                                    body |-> [success |-> TRUE,
                                              message |-> "Note created successfully",
                                              data |-> note]]

\* exports.createNote
createNote(body) ==
    LET title   == body.title
        content == body.content
    IN  /\ req' = [op |-> "createNote", body |-> body]
        /\ IF invalid(title, content)
           THEN /\ res' = [status |-> 400,
                           body |-> [success |-> FALSE,
                                     message |-> "Title and content are required"]]
                /\ UNCHANGED <<notes, nextId, now>>
           ELSE /\ nextId <= MaxCreates
                /\ \E t2 \in now..LastTime :
                     LET note == newNote(nextId, title, content, now, t2)
                     IN  /\ nextId' = nextId + 1
                         /\ notes' = Append(notes, note)
                         /\ now' = t2
                         /\ res' = [status |-> 201,
                                    body |-> [success |-> TRUE,
                                              message |-> "Note created successfully",
                                              data |-> note]]

\* getAllNotes with count: nextId - 1 in place of count: notes.length
getAllNotesCountingCreates ==
    /\ req' = [op |-> "getAllNotes"]
    /\ res' = [status |-> 200,
               body |-> [success |-> TRUE, count |-> nextId - 1, data |-> notes]]
    /\ UNCHANGED <<notes, nextId, now>>

\* getAllNotes that puts the newest note first with notes.reverse(), which
\* reverses the array in place
getAllNotesReversing ==
    /\ req' = [op |-> "getAllNotes"]
    /\ notes' = [i \in 1..Len(notes) |-> notes[Len(notes) + 1 - i]]
    /\ res' = [status |-> 200,
               body |-> [success |-> TRUE, count |-> Len(notes), data |-> notes']]
    /\ UNCHANGED <<nextId, now>>

\* exports.getAllNotes
getAllNotes ==
    /\ req' = [op |-> "getAllNotes"]
    /\ res' = [status |-> 200,
               body |-> [success |-> TRUE, count |-> Len(notes), data |-> notes]]
    /\ UNCHANGED <<notes, nextId, now>>

\* getNoteById with a message in the 200 body, as the writing handlers have
getNoteByIdWithMessage(id) ==
    LET note == find(notes, id)
    IN  /\ req' = [op |-> "getNoteById", id |-> id]
        /\ IF note = <<>>
           THEN res' = NotFound
           ELSE res' = [status |-> 200,
                        body |-> [success |-> TRUE,
                                  message |-> "Note retrieved successfully",
                                  data |-> note[1]]]
        /\ UNCHANGED <<notes, nextId, now>>

\* exports.getNoteById
getNoteById(id) ==
    LET note == find(notes, id)
    IN  /\ req' = [op |-> "getNoteById", id |-> id]
        /\ IF note = <<>>
           THEN res' = NotFound
           ELSE res' = [status |-> 200,
                        body |-> [success |-> TRUE, data |-> note[1]]]
        /\ UNCHANGED <<notes, nextId, now>>

\* updateNote with Object.assign(notes[noteIndex], req.body) in place of the
\* two guarded assignments: every property the body carries is copied
updateNoteAssigning(id, body) ==
    LET noteIndex == findIndex(notes, id)
        assigned(note) ==
            [f \in DOMAIN note |->
                IF f \in DOMAIN body /\ body[f] # Undefined
                THEN (IF f = "id" THEN body[f].v ELSE body[f])
                ELSE note[f]]
    IN  /\ req' = [op |-> "updateNote", id |-> id, body |-> body]
        /\ IF noteIndex = -1
           THEN /\ res' = NotFound
                /\ UNCHANGED <<notes, nextId, now>>
           ELSE /\ notes' = [notes EXCEPT
                               ![noteIndex] =
                                   [assigned(@) EXCEPT !.updatedAt = toISOString(now)]]
                /\ res' = [status |-> 200,
                           body |-> [success |-> TRUE,
                                     message |-> "Note updated successfully",
                                     data |-> notes'[noteIndex]]]
                /\ UNCHANGED <<nextId, now>>

\* updateNote that takes the note out and pushes the changed note, so that
\* the last changed note is the last of the array
updateNoteMovingToEnd(id, body) ==
    LET title     == body.title
        content   == body.content
        noteIndex == findIndex(notes, id)
    IN  /\ req' = [op |-> "updateNote", id |-> id, body |-> body]
        /\ IF noteIndex = -1
           THEN /\ res' = NotFound
                /\ UNCHANGED <<notes, nextId, now>>
           ELSE /\ notes' = Append(splice(notes, noteIndex),
                                   updated(notes[noteIndex], title, content, now))
                /\ res' = [status |-> 200,
                           body |-> [success |-> TRUE,
                                     message |-> "Note updated successfully",
                                     data |-> notes'[Len(notes')]]]
                /\ UNCHANGED <<nextId, now>>

\* exports.updateNote
updateNote(id, body) ==
    LET title     == body.title
        content   == body.content
        noteIndex == findIndex(notes, id)
    IN  /\ req' = [op |-> "updateNote", id |-> id, body |-> body]
        /\ IF noteIndex = -1
           THEN /\ res' = NotFound
                /\ UNCHANGED <<notes, nextId, now>>
           ELSE /\ notes' = [notes EXCEPT
                               ![noteIndex] = updated(@, title, content, now)]
                /\ res' = [status |-> 200,
                           body |-> [success |-> TRUE,
                                     message |-> "Note updated successfully",
                                     data |-> notes'[noteIndex]]]
                /\ UNCHANGED <<nextId, now>>

\* deleteNote without the noteIndex === -1 check: notes.splice(-1, 1) removes
\* the last note, and on an empty array deletedNote is undefined
deleteNoteUnchecked(id) ==
    LET noteIndex == findIndex(notes, id)
        at        == IF noteIndex = -1 THEN Len(notes) ELSE noteIndex
    IN  /\ req' = [op |-> "deleteNote", id |-> id]
        /\ IF notes = <<>>
           THEN /\ res' = [status |-> 200,
                           body |-> [success |-> TRUE,
                                     message |-> "Note deleted successfully"]]
                /\ UNCHANGED <<notes, nextId, now>>
           ELSE /\ notes' = splice(notes, at)
                /\ res' = [status |-> 200,
                           body |-> [success |-> TRUE,
                                     message |-> "Note deleted successfully",
                                     data |-> notes[at]]]
                /\ UNCHANGED <<nextId, now>>

\* exports.deleteNote
deleteNote(id) ==
    LET noteIndex == findIndex(notes, id)
    IN  /\ req' = [op |-> "deleteNote", id |-> id]
        /\ IF noteIndex = -1
           THEN /\ res' = NotFound
                /\ UNCHANGED <<notes, nextId, now>>
           ELSE LET deletedNote == notes[noteIndex]
                IN  /\ notes' = splice(notes, noteIndex)
                    /\ res' = [status |-> 200,
                               body |-> [success |-> TRUE,
                                         message |-> "Note deleted successfully",
                                         data |-> deletedNote]]
                    /\ UNCHANGED <<nextId, now>>

(***************************************************************************)
(* The history variables record what a client sees: they are computed      *)
(* from the request and the response of the call alone.                    *)
(***************************************************************************)
Observe ==
    LET carries(op, status) ==
            /\ req'.op = op
            /\ res'.status = status
            /\ "data" \in DOMAIN res'.body
    IN  /\ issued' = IF carries("createNote", 201)
                     THEN Append(issued, res'.body.data.id)
                     ELSE issued
        /\ deleted' = IF carries("deleteNote", 200)
                      THEN deleted \cup {res'.body.data.id}
                      ELSE deleted
        /\ intact' = CASE carries("createNote", 201) ->
                            intact \cup {res'.body.data}
                       [] req'.op \in {"updateNote", "deleteNote"} ->
                            {n \in intact : String(n.id) # req'.id}
                       [] OTHER -> intact

\* one more handler call, within the explored number of calls
OneMoreCall == calls < MaxCalls /\ calls' = calls + 1

\* a handler call for a request that was not waiting behind another one
Call == OneMoreCall /\ UNCHANGED <<inflight, replies, sent>>

Create == Call /\ (\E body \in Bodies : createNote(body)) /\ Observe
List == Call /\ getAllNotes /\ Observe
Get == Call /\ (\E id \in IdTexts : getNoteById(id)) /\ Observe
Update == Call /\ (\E id \in IdTexts, body \in Bodies : updateNote(id, body)) /\ Observe
Delete == Call /\ (\E id \in IdTexts : deleteNote(id)) /\ Observe

Next == Tick \/ Create \/ List \/ Get \/ Update \/ Delete

Spec == Init /\ [][Next]_vars

(***************************************************************************)
(* Properties.                                                             *)
(***************************************************************************)
\* the notes an array holds
Stored(ns) == {ns[i] : i \in 1..Len(ns)}

\* the notes of ns that have the id k
WithId(ns, k) == {n \in Stored(ns) : n.id = k}

\* a title or content that is text, or is missing from the body
TextOrMissing(x) == x = Undefined \/ x.t = "string"

\* missing, or the empty string
MissingOrEmpty(x) == x = Undefined \/ x = Str("")

ValidationError ==
    [status |-> 400,
     body |-> [success |-> FALSE, message |-> "Title and content are required"]]

\* the step is a call of the handler op (a step of the clock leaves calls,
\* req and res as they were)
Called(op) == calls' = calls + 1 /\ req'.op = op

\* C1: the ids that successful creates return are strictly increasing in
\* the order of the creates, so no id is handed out twice, also not an id
\* whose note was deleted in between.
C1_IdsStrictlyIncrease ==
    \A i, j \in 1..Len(issued) : i < j => issued[i] < issued[j]

\* a create succeeded after the note of an earlier create was deleted
C1_Witness ==
    /\ req.op = "createNote" /\ res.status = 201
    /\ Len(issued) >= 2
    /\ issued[1] \in deleted

\* C2: a create whose title and content are text or missing answers with
\* the validation error (400, success false, the fixed message) exactly
\* when title or content is missing or the empty string, and a create that
\* answered 400 left notes and nextId as they were.
C2_ValidationExact ==
    [][ (Called("createNote")
           /\ TextOrMissing(req'.body.title) /\ TextOrMissing(req'.body.content))
        => /\ (MissingOrEmpty(req'.body.title) \/ MissingOrEmpty(req'.body.content))
                <=> res' = ValidationError
           /\ res'.status = 400 => (notes' = notes /\ nextId' = nextId)
      ]_vars

\* a create with an empty title and a good content was rejected on a store
\* that holds a note
C2_Witness ==
    /\ req.op = "createNote"
    /\ req.body.title = Str("") /\ req.body.content = Str("C")
    /\ res = ValidationError
    /\ Len(notes) = 1

\* C3: getById with the id of a note N that create returned, no update or
\* delete of that id having been requested since, answers 200 with a note
\* equal to N in id, title, content, createdAt and updatedAt.
C3_GetReturnsCreated ==
    req.op = "getNoteById" =>
        \A n \in intact :
            req.id = String(n.id) =>
                /\ res.status = 200
                /\ res.body.success = TRUE
                /\ res.body.data.id = n.id
                /\ res.body.data.title = n.title
                /\ res.body.data.content = n.content
                /\ res.body.data.createdAt = n.createdAt
                /\ res.body.data.updatedAt = n.updatedAt

\* the second of two created notes was read back
C3_Witness ==
    /\ req.op = "getNoteById" /\ res.status = 200
    /\ Len(notes) = 2
    /\ \E n \in intact : n.id = 2 /\ req.id = String(n.id)

NotFoundError ==
    [status |-> 404, body |-> [success |-> FALSE, message |-> "Note not found"]]

\* Date.parse of a timestamp text: the instant it denotes
IsoInstant(s) == s.sec * 1000 + s.ms

\* the order of timestamp texts, field by field from the most significant
IsoLess(a, b) == a.sec < b.sec \/ (a.sec = b.sec /\ a.ms < b.ms)
IsoLeq(a, b) == a = b \/ IsoLess(a, b)

\* the ids a run can name: those it can assign and the next one
Ids == 1..(MaxCreates + 1)

\* C4: getById, update and delete with the id k of no note in the store
\* (never assigned, or deleted) answer 404 with success false and 'Note not
\* found', and leave notes and nextId as they were.
C4_NoMatchNotFound ==
    [][ \A k \in Ids :
          (/\ Called("getNoteById") \/ Called("updateNote") \/ Called("deleteNote")
           /\ req'.id = String(k)
           /\ WithId(notes, k) = {})
          => (res' = NotFoundError /\ notes' = notes /\ nextId' = nextId)
      ]_vars

\* an update named the id of a deleted note while another note is stored
C4_Witness ==
    /\ req.op = "updateNote" /\ res = NotFoundError
    /\ \E k \in deleted : req.id = String(k)
    /\ notes # <<>>

\* C5: a delete that names the id of a stored note N answers 200 with data
\* equal to N as it was stored, and leaves no note with that id; no deleted
\* id is in the store again, and every getById of a deleted id answers 404.
C5_DeleteRemoves ==
    [][ /\ Called("deleteNote") =>
             \A n \in Stored(notes) :
                 req'.id = String(n.id) =>
                     /\ res'.status = 200
                     /\ res'.body.success = TRUE
                     /\ res'.body.data = n
                     /\ WithId(notes', n.id) = {}
        /\ \A k \in deleted' : WithId(notes', k) = {}
        /\ Called("getNoteById") =>
             \A k \in deleted' : req'.id = String(k) => res' = NotFoundError
      ]_vars

\* a deleted id was looked up
C5_Witness ==
    /\ req.op = "getNoteById" /\ res = NotFoundError
    /\ \E k \in deleted : req.id = String(k)

\* C6: an update that names the id of a stored note answers 200; the note
\* has the supplied title if a title was supplied and its old title if not,
\* likewise the content; the response carries the note after the update.
C6_UpdateProvidedFields ==
    [][ Called("updateNote") =>
          \A old \in Stored(notes) :
              req'.id = String(old.id) =>
                  /\ res'.status = 200
                  /\ \E new \in Stored(notes') :
                       /\ WithId(notes', old.id) = {new}
                       /\ new.title = IF req'.body.title # Undefined
                                      THEN req'.body.title ELSE old.title
                       /\ new.content = IF req'.body.content # Undefined
                                        THEN req'.body.content ELSE old.content
                       /\ res'.body.data = new
      ]_vars

\* an update that supplied only a title changed the title and kept the content
C6_Witness ==
    /\ req.op = "updateNote" /\ res.status = 200
    /\ req.body.title = Str("") /\ req.body.content = Undefined
    /\ \E n \in Stored(notes) :
         n.title = Str("") /\ n.content = Str("C") /\ res.body.data = n

\* C7: an update that names the id of a stored note sets updatedAt to the
\* instant of the call: it is later than the old updatedAt when the clock
\* has advanced past that, and it is never earlier.
C7_UpdateRefreshesUpdatedAt ==
    [][ Called("updateNote") =>
          \A old \in Stored(notes) :
              req'.id = String(old.id) =>
                  \A new \in WithId(notes', old.id) :
                      /\ IsoInstant(new.updatedAt) = now'
                      /\ IsoInstant(old.updatedAt) < now'
                           => IsoLess(old.updatedAt, new.updatedAt)
                      /\ IsoLeq(old.updatedAt, new.updatedAt)
      ]_vars

\* an update ran at a later instant than the creation of its note
C7_Witness ==
    /\ req.op = "updateNote" /\ res.status = 200
    /\ IsoInstant(res.body.data.updatedAt) = now
    /\ \E n \in Stored(notes) :
         n = res.body.data /\ IsoLess(n.createdAt, n.updatedAt)

\* C8 as stated: an update with no fields that names a stored note changes
\* its updatedAt, and keeps id, title, content and createdAt.
C8_EmptyUpdateChangesUpdatedAt ==
    [][ (Called("updateNote")
           /\ req'.body.title = Undefined /\ req'.body.content = Undefined)
        => \A old \in Stored(notes) :
              req'.id = String(old.id) =>
                  \E new \in Stored(notes') :
                      /\ WithId(notes', old.id) = {new}
                      /\ new.updatedAt # old.updatedAt
                      /\ new.title = old.title
                      /\ new.content = old.content
                      /\ new.createdAt = old.createdAt
      ]_vars

\* C8, amended: an update with no fields that names a stored note sets its
\* updatedAt to the instant of the call, which changes updatedAt when the
\* clock has advanced since the old updatedAt was written, and keeps id,
\* title, content and createdAt.
C8_EmptyUpdateTouches ==
    [][ (Called("updateNote")
           /\ req'.body.title = Undefined /\ req'.body.content = Undefined)
        => \A old \in Stored(notes) :
              req'.id = String(old.id) =>
                  \E new \in Stored(notes') :
                      /\ WithId(notes', old.id) = {new}
                      /\ IsoInstant(new.updatedAt) = now'
                      /\ IsoInstant(old.updatedAt) < now'
                           => new.updatedAt # old.updatedAt
                      /\ new.title = old.title
                      /\ new.content = old.content
                      /\ new.createdAt = old.createdAt
      ]_vars

\* an update with no fields ran at a later instant than the creation
C8_Witness ==
    /\ req.op = "updateNote" /\ res.status = 200
    /\ req.body.title = Undefined /\ req.body.content = Undefined
    /\ IsoLess(res.body.data.createdAt, res.body.data.updatedAt)
    /\ IsoInstant(res.body.data.updatedAt) = now

\* C9: every stored note has createdAt <= updatedAt (the clock of the model
\* never goes backwards).
C9_CreatedNotAfterUpdated ==
    \A n \in Stored(notes) : IsoLeq(n.createdAt, n.updatedAt)

\* a stored note was updated in a later second than it was created in
C9_Witness ==
    /\ req.op = "updateNote" /\ res.status = 200
    /\ \E n \in Stored(notes) :
         /\ n.createdAt.sec < n.updatedAt.sec
         /\ n.createdAt.ms > n.updatedAt.ms

\* C10: the note a successful create stores and returns has createdAt equal
\* to updatedAt.
C10_CreatedAtEqualsUpdatedAt ==
    (req.op = "createNote" /\ res.status = 201) =>
        /\ res.body.data.createdAt = res.body.data.updatedAt
        /\ \A n \in WithId(notes, res.body.data.id) : n.createdAt = n.updatedAt

\* the ids of the notes of an array, in the order of the array
IdsOf(ns) == [i \in 1..Len(ns) |-> ns[i].id]

\* the ids create handed out and delete has not taken back, in the order
\* of the creates
RECURSIVE Surviving(_, _)
Surviving(ids, gone) ==
    IF ids = <<>> THEN <<>>
    ELSE IF Head(ids) \in gone THEN Surviving(Tail(ids), gone)
    ELSE <<Head(ids)>> \o Surviving(Tail(ids), gone)

\* C11: every list call answers 200 with success true, also on an empty
\* store; data holds the notes created and not deleted, in the order of
\* their creation and as they are stored now, and count is the length of
\* data.
C11_ListReturnsStore ==
    [][ Called("getAllNotes") =>
          /\ res'.status = 200
          /\ res'.body.success = TRUE
          /\ res'.body.count = Len(res'.body.data)
          /\ IdsOf(res'.body.data) = Surviving(issued', deleted')
          /\ res'.body.data = notes'
      ]_vars

\* a list call after two creates and a delete: one note is left
C11_Witness ==
    /\ req.op = "getAllNotes" /\ res.status = 200
    /\ res.body.count = 1
    /\ deleted # {}
    /\ Len(issued) = 2

\* C13: an update that names a stored note and supplies the empty string
\* as title (or content) answers 200 and stores the empty string in that
\* field, while a create that supplies the empty string as title (or
\* content) answers 400.
C13_UpdateAcceptsEmpty ==
    [][ /\ Called("updateNote") =>
             \A old \in Stored(notes) :
                 (req'.id = String(old.id)) =>
                     /\ (req'.body.title = Str("")) =>
                          (/\ res'.status = 200
                           /\ \A new \in WithId(notes', old.id) : new.title = Str("")
                           /\ WithId(notes', old.id) # {})
                     /\ (req'.body.content = Str("")) =>
                          (/\ res'.status = 200
                           /\ \A new \in WithId(notes', old.id) : new.content = Str("")
                           /\ WithId(notes', old.id) # {})
        /\ (/\ Called("createNote")
            /\ (req'.body.title = Str("") \/ req'.body.content = Str("")))
             => res'.status = 400
      ]_vars

\* an update stored an empty content in a note that create gave a content
C13_Witness ==
    /\ req.op = "updateNote" /\ res.status = 200
    /\ req.body.content = Str("")
    /\ res.body.data.content = Str("")
    /\ res.body.data.title = Str("T")
    /\ res.body.data \in Stored(notes)

\* the ids of the stored notes
Present(ns) == {n.id : n \in Stored(ns)}

\* the call answered with a failure status
Failed(r) == r.status \in {400, 404, 500}

\* C15: an id becomes present only in a create step that answers 201 with
\* that id, and becomes absent only in a delete step that answers 200 with
\* that id; update, list, getById and every call that answers a failure
\* leave the set of present ids as it was; a deleted id is never present.
C15_PresenceTransitions ==
    [][ /\ \A k \in Present(notes') \ Present(notes) :
             Called("createNote") /\ res'.status = 201 /\ res'.body.data.id = k
        /\ \A k \in Present(notes) \ Present(notes') :
             Called("deleteNote") /\ res'.status = 200 /\ res'.body.data.id = k
        /\ (Called("updateNote") \/ Called("getAllNotes") \/ Called("getNoteById"))
             => Present(notes') = Present(notes)
        /\ (calls' = calls + 1 /\ Failed(res')) => Present(notes') = Present(notes)
        /\ Present(notes') \cap deleted' = {}
      ]_vars

\* a create made a second id present after the first id became absent
C15_Witness ==
    /\ req.op = "createNote" /\ res.status = 201
    /\ Present(notes) = {2}
    /\ deleted = {1}

(***************************************************************************)
(* The same handlers called with :id texts that are not the decimal text   *)
(* of an integer: req.params.id is whatever text the URL carries.          *)
(***************************************************************************)
OtherIdTexts ==
    { <<"a", "b", "c">>, <<"1", "a", "b", "c">>, <<"1", ".", "5">>, <<>>,
      <<"1">> }

GetText == Call /\ (\E id \in OtherIdTexts : getNoteById(id)) /\ Observe
UpdateText ==
    Call /\ (\E id \in OtherIdTexts, body \in Bodies : updateNote(id, body)) /\ Observe
DeleteText == Call /\ (\E id \in OtherIdTexts : deleteNote(id)) /\ Observe

NextTexts == Create \/ GetText \/ UpdateText \/ DeleteText

SpecTexts == Init /\ [][NextTexts]_vars

\* the text is one or more decimal digits and nothing else
IsIntegerText(text) ==
    /\ text # <<>>
    /\ \A i \in 1..Len(text) : IsDigit(text[i])

\* C12: a getById, update or delete whose :id is not the text of an
\* integer ('abc', '1abc', '1.5', '') answers 404.
C12_NonNumericIsNoMatch ==
    [][ (/\ Called("getNoteById") \/ Called("updateNote") \/ Called("deleteNote")
         /\ ~IsIntegerText(req'.id))
          => res'.status = 404
      ]_vars

(***************************************************************************)
(* Update requests whose JSON body carries more properties than title and  *)
(* content: an id (a number) and a createdAt (an ISO text).                *)
(***************************************************************************)
Num(n) == [t |-> "number", v |-> n]

FieldBodies ==
    [title : {Undefined, Str("T2")}, content : {Undefined},
     id : {Undefined, Num(MaxCreates + 1)},
     createdAt : {Undefined, toISOString(0)}]

UpdateFields ==
    Call /\ (\E id \in IdTexts, body \in FieldBodies : updateNote(id, body)) /\ Observe

NextFields == Tick \/ Create \/ UpdateFields \/ Delete

SpecFields == Init /\ [][NextFields]_vars

\* ns with the note at index j taken out
Without(ns, j) == [i \in 1..(Len(ns) - 1) |-> IF i < j THEN ns[i] ELSE ns[i + 1]]

\* the notes of ns are, in order, the first notes of ms, each with the id
\* and createdAt it has in ns
SameIdentity(ns, ms) ==
    /\ Len(ns) <= Len(ms)
    /\ \A i \in 1..Len(ns) :
          /\ ms[i].id = ns[i].id
          /\ ms[i].createdAt = ns[i].createdAt

\* C14: no step changes the id or the createdAt of a stored note, also an
\* update whose body carries an id or a createdAt: a step that is not a
\* successful delete keeps every stored note at its place with its id and
\* createdAt, and a successful delete takes one note out and keeps the id
\* and createdAt of the others.
C14_IdAndCreatedAtImmutable ==
    [][ IF Called("deleteNote") /\ res'.status = 200
        THEN \E j \in 1..Len(notes) :
                 /\ Len(notes') = Len(notes) - 1
                 /\ SameIdentity(notes', Without(notes, j))
        ELSE SameIdentity(notes, notes')
      ]_vars

\* an update carrying an id and a createdAt changed the title of note 1,
\* which still has its id and a createdAt different from the body's
C14_Witness ==
    /\ req.op = "updateNote" /\ res.status = 200
    /\ req.body.id = Num(MaxCreates + 1)
    /\ req.body.createdAt = toISOString(0)
    /\ res.body.data.title = Str("T2")
    /\ res.body.data.id = 1
    /\ res.body.data.createdAt # toISOString(0)
    /\ res.body.data \in Stored(notes)

(***************************************************************************)
(* Each handler body is one try block whose last statement sends the       *)
(* response; its catch block sends 500 with the handler's message and      *)
(* error.message.  The runs below are those in which the response call of  *)
(* the try block throws: what the handler did before that call stays done. *)
(***************************************************************************)
Caught(message) ==
    [status |-> 500,
     body |-> [success |-> FALSE, message |-> message, error |-> "error.message"]]

createNoteCaught(body) ==
    LET title   == body.title
        content == body.content
    IN  /\ req' = [op |-> "createNote", body |-> body]
        /\ res' = Caught("Error creating note")
        /\ IF invalid(title, content)
           THEN UNCHANGED <<notes, nextId, now>>
           ELSE /\ nextId <= MaxCreates
                /\ \E t2 \in now..LastTime :
                     LET note == newNote(nextId, title, content, now, t2)
                     IN  /\ nextId' = nextId + 1
                         /\ notes' = Append(notes, note)
                         /\ now' = t2

getAllNotesCaught ==
    /\ req' = [op |-> "getAllNotes"]
    /\ res' = Caught("Error retrieving notes")
    /\ UNCHANGED <<notes, nextId, now>>

getNoteByIdCaught(id) ==
    /\ req' = [op |-> "getNoteById", id |-> id]
    /\ res' = Caught("Error retrieving note")
    /\ UNCHANGED <<notes, nextId, now>>

updateNoteCaught(id, body) ==
    LET title     == body.title
        content   == body.content
        noteIndex == findIndex(notes, id)
    IN  /\ req' = [op |-> "updateNote", id |-> id, body |-> body]
        /\ res' = Caught("Error updating note")
        /\ IF noteIndex = -1
           THEN UNCHANGED <<notes, nextId, now>>
           ELSE /\ notes' = [notes EXCEPT
                               ![noteIndex] = updated(@, title, content, now)]
                /\ UNCHANGED <<nextId, now>>

deleteNoteCaught(id) ==
    LET noteIndex == findIndex(notes, id)
    IN  /\ req' = [op |-> "deleteNote", id |-> id]
        /\ res' = Caught("Error deleting note")
        /\ IF noteIndex = -1
           THEN UNCHANGED <<notes, nextId, now>>
           ELSE /\ notes' = splice(notes, noteIndex)
                /\ UNCHANGED <<nextId, now>>

\* the request bodies of the runs in which the response call may throw
FaultBodies == [title : {Undefined, Str("T")}, content : {Str("C")}]

\* whether the response call of the try block throws is the caller's
\* response object's doing: either can happen at every call
CreateWithFault ==
    /\ Call
    /\ \E body \in FaultBodies, throws \in BOOLEAN :
          IF throws THEN createNoteCaught(body) ELSE createNote(body)
    /\ Observe
ListWithFault ==
    /\ Call
    /\ \E throws \in BOOLEAN : IF throws THEN getAllNotesCaught ELSE getAllNotes
    /\ Observe
GetWithFault ==
    /\ Call
    /\ \E id \in IdTexts, throws \in BOOLEAN :
          IF throws THEN getNoteByIdCaught(id) ELSE getNoteById(id)
    /\ Observe
UpdateWithFault ==
    /\ Call
    /\ \E id \in IdTexts, body \in FaultBodies, throws \in BOOLEAN :
          IF throws THEN updateNoteCaught(id, body) ELSE updateNote(id, body)
    /\ Observe
DeleteWithFault ==
    /\ Call
    /\ \E id \in IdTexts, throws \in BOOLEAN :
          IF throws THEN deleteNoteCaught(id) ELSE deleteNote(id)
    /\ Observe

NextFaults ==
    \/ CreateWithFault \/ ListWithFault \/ GetWithFault
    \/ UpdateWithFault \/ DeleteWithFault

SpecFaults == Init /\ [][NextFaults]_vars

\* C16: a call that answers a failure (400, 404 or 500, also a 500 caused
\* by a fault of the response call) leaves the stored notes and the id
\* counter as they were before the call.
C16_FailureHasNoEffect ==
    [][ (calls' = calls + 1 /\ Failed(res'))
          => (notes' = notes /\ nextId' = nextId)
      ]_vars

\* the properties the response body carries
Fields(r) == DOMAIN r.body

\* a response has been sent
Answered == res.status # 0

\* C19: in every response, message is present exactly when the call failed
\* or was a successful create, update or delete (so it is absent on a
\* successful list or getById), count is present exactly on a successful
\* list, and error is present exactly on a 500 response.
C19_EnvelopeFields ==
    Answered =>
        /\ "success" \in Fields(res)
        /\ "message" \in Fields(res)
             <=> \/ Failed(res)
                 \/ req.op \in {"createNote", "updateNote", "deleteNote"}
        /\ ("message" \notin Fields(res)) <=>
               (~Failed(res) /\ req.op \in {"getAllNotes", "getNoteById"})
        /\ "count" \in Fields(res)
             <=> (req.op = "getAllNotes" /\ res.status = 200)
        /\ "error" \in Fields(res) <=> res.status = 500

\* a getById of a stored note answered without message, count or error
\* after an earlier call ended in the catch block
C19_Witness ==
    /\ req.op = "getNoteById" /\ res.status = 200
    /\ Fields(res) = {"success", "data"}
    /\ res.body.data \in Stored(notes)
    /\ Len(issued) < Len(notes)

\* C20: success is true exactly on 201 and 200; a successful create
\* answers 201 and a successful list, getById, update or delete answers
\* 200; only create answers 400 (and 201), create never answers 404, and
\* list answers neither 400 nor 404.
C20_StatusAgreesWithOutcome ==
    Answered =>
        /\ res.body.success <=> res.status \in {200, 201}
        /\ res.status \in {200, 201, 400, 404, 500}
        /\ res.status = 201 <=> (res.body.success /\ req.op = "createNote")
        /\ res.status = 200 <=> (res.body.success /\ req.op # "createNote")
        /\ res.status = 400 => req.op = "createNote"
        /\ req.op = "createNote" => res.status \in {201, 400, 500}
        /\ req.op = "getAllNotes" => res.status \in {200, 500}

\* a create answered 201 with success true after a create answered 400
C20_Witness ==
    /\ req.op = "createNote" /\ res.status = 201
    /\ res.body.success
    /\ calls > Len(notes)
    /\ nextId = 2

(***************************************************************************)
(* Several clients at once.  Express queues the requests it receives; Node *)
(* runs one handler at a time on its single thread, and no handler of the  *)
(* controller awaits, so a handler, once started, runs to its response.    *)
(***************************************************************************)
\* what the callers send: one request of every route
Requests ==
    {[op |-> "createNote", id |-> <<>>, body |-> [title |-> Str("T"), content |-> Str("C")]],
     [op |-> "getAllNotes", id |-> <<>>, body |-> [title |-> Undefined, content |-> Undefined]],
     [op |-> "getNoteById", id |-> String(1), body |-> [title |-> Undefined, content |-> Undefined]],
     [op |-> "updateNote", id |-> String(1), body |-> [title |-> Str(""), content |-> Undefined]],
     [op |-> "deleteNote", id |-> String(1), body |-> [title |-> Undefined, content |-> Undefined]],
     [op |-> "deleteNote", id |-> String(2), body |-> [title |-> Undefined, content |-> Undefined]]}

\* the router: the handler of the request's route
Handle(r) ==
    CASE r.op = "createNote"  -> createNote(r.body)
      [] r.op = "getAllNotes" -> getAllNotes
      [] r.op = "getNoteById" -> getNoteById(r.id)
      [] r.op = "updateNote"  -> updateNote(r.id, r.body)
      [] r.op = "deleteNote"  -> deleteNote(r.id)

\* caller c sends a request; it waits for the handler
Send(c) ==
    /\ inflight[c] = <<>>
    /\ \E r \in Requests :
          inflight' = [inflight EXCEPT ![c] = <<[request |-> r, sent |-> calls]>>]
    /\ replies' = [replies EXCEPT ![c] = <<>>]
    /\ UNCHANGED <<notes, nextId, now, req, res, calls, issued, intact, deleted, sent>>

\* the handler of c's request runs, from its first statement to its response
Serve(c) ==
    /\ inflight[c] # <<>>
    /\ OneMoreCall
    /\ Handle(inflight[c][1].request)
    /\ Observe
    /\ inflight' = [inflight EXCEPT ![c] = <<>>]
    /\ UNCHANGED sent
    /\ replies' = [replies EXCEPT
                     ![c] = <<[op |-> req'.op, id |-> inflight[c][1].request.id,
                               res |-> res',
                               sent |-> inflight[c][1].sent, served |-> calls']>>]

NextCallers == \E c \in Callers : Send(c) \/ Serve(c)

SpecCallers == Init /\ [][NextCallers]_vars

\* the requests of a and b were in flight at the same time: each was sent
\* before the handler of the other ran
Concurrent(a, b) ==
    /\ a # b
    /\ replies[a] # <<>> /\ replies[b] # <<>>
    /\ replies[a][1].sent < replies[b][1].served
    /\ replies[b][1].sent < replies[a][1].served

\* C17: the handler of one request runs from its lookup to its mutation
\* while the requests of other callers wait, so concurrent requests get
\* the responses of a serial order: two concurrent creates get different
\* ids, two concurrent deletes of the same id are never both answered 200,
\* and the one that ran second is answered 404 when the first was answered
\* 200.
C17_ConcurrentCallsSerialize ==
    \A a, b \in Callers :
        Concurrent(a, b) =>
            LET ra == replies[a][1]
                rb == replies[b][1]
            IN  /\ (/\ ra.op = "createNote" /\ rb.op = "createNote"
                    /\ ra.res.status = 201 /\ rb.res.status = 201)
                      => ra.res.body.data.id # rb.res.body.data.id
                /\ (/\ ra.op = "deleteNote" /\ rb.op = "deleteNote"
                    /\ ra.id = rb.id
                    /\ ra.served < rb.served
                    /\ ra.res.status = 200)
                      => rb.res.status = 404

\* two deletes of note 1 were in flight together; one was answered 200 and
\* the other 404
C17_Witness ==
    /\ Concurrent("a", "b")
    /\ replies["a"][1].op = "deleteNote" /\ replies["b"][1].op = "deleteNote"
    /\ replies["a"][1].id = String(1) /\ replies["b"][1].id = String(1)
    /\ replies["a"][1].res.status = 200
    /\ replies["b"][1].res.status = 404

(***************************************************************************)
(* What the handlers pass to res.json is the object in the array (data:    *)
(* newNote after notes.push(newNote), data: note from notes.find, data:    *)
(* notes[noteIndex]) or the array (data: notes).  A response object that   *)
(* hands that value on as it is gives its holder the stored object: an     *)
(* assignment through it is an assignment to the store.                    *)
(***************************************************************************)
\* the last response carries a note that is in the store
HoldsNote ==
    /\ req.op \in {"createNote", "getNoteById", "updateNote"}
    /\ res.status \in {200, 201}

\* the holder of the returned note assigns to its title
HolderChangesNote ==
    /\ HoldsNote
    /\ res.body.data.title # Str("changed")
    /\ LET noteIndex == CHOOSE i \in 1..Len(notes) : notes[i].id = res.body.data.id
       IN  notes' = [notes EXCEPT ![noteIndex].title = Str("changed")]
    /\ res' = [res EXCEPT !.body.data.title = Str("changed")]
    /\ UNCHANGED <<nextId, now, req, calls, issued, intact, deleted, inflight, replies>>
    /\ UNCHANGED sent

\* the holder of the returned list pops its last element
HolderChangesList ==
    /\ req.op = "getAllNotes" /\ res.status = 200
    /\ notes # <<>>
    /\ notes' = SubSeq(notes, 1, Len(notes) - 1)
    /\ res' = [res EXCEPT !.body.data = notes']
    /\ UNCHANGED <<nextId, now, req, calls, issued, intact, deleted, inflight, replies>>
    /\ UNCHANGED sent

NextHolders ==
    \/ Create \/ List \/ Get \/ Update \/ Delete
    \/ HolderChangesNote \/ HolderChangesList

SpecHolders == Init /\ [][NextHolders]_vars

\* C18: what the handlers return is a copy: the stored notes change only
\* in a handler call, never by what a caller does with a returned note or
\* a returned list between the calls.
C18_ReturnedDataIsACopy ==
    [][ calls' = calls => notes' = notes ]_vars

\* C23: a list and a getById leave the stored notes and the id counter as
\* they were, and a list that follows a list with no other call between
\* them answers with the same data and the same count.
C23_ReadsChangeNothing ==
    [][ /\ (Called("getAllNotes") \/ Called("getNoteById"))
             => (notes' = notes /\ nextId' = nextId)
        /\ (Called("getAllNotes") /\ req.op = "getAllNotes")
             => (/\ res'.body.data = res.body.data
                 /\ res'.body.count = res.body.count)
      ]_vars

\* a list answered with both created notes at the last explored call
C23_Witness ==
    /\ req.op = "getAllNotes" /\ res.status = 200
    /\ res.body.count = 2
    /\ res.body.data = notes
    /\ calls = MaxCalls

\* C24: a delete answered 200 takes out of the store exactly the note at
\* one place, the note with the id of the request: the notes before it and
\* after it stay as they were and in their order, the store is one shorter
\* and the id counter is unchanged.
C24_DeleteRemovesExactlyOne ==
    [][ (Called("deleteNote") /\ res'.status = 200) =>
          /\ \E j \in 1..Len(notes) :
                /\ String(notes[j].id) = req'.id
                /\ notes' = Without(notes, j)
          /\ Len(notes') = Len(notes) - 1
          /\ nextId' = nextId
      ]_vars

\* the first of two stored notes was deleted and the second is left
C24_Witness ==
    /\ req.op = "deleteNote" /\ res.status = 200
    /\ res.body.data.id = 1
    /\ IdsOf(notes) = <<2>>

\* C25: an update answered 200 keeps the number of notes, the id at every
\* place, every note whose id is not the id of the request, and the id
\* counter.
C25_UpdateChangesOneNote ==
    [][ (Called("updateNote") /\ res'.status = 200) =>
          /\ Len(notes') = Len(notes)
          /\ IdsOf(notes') = IdsOf(notes)
          /\ \A i \in 1..Len(notes) :
                String(notes[i].id) # req'.id => notes'[i] = notes[i]
          /\ nextId' = nextId
      ]_vars

\* the first of two stored notes was updated and is still the first
C25_Witness ==
    /\ req.op = "updateNote" /\ res.status = 200
    /\ res.body.data.id = 1
    /\ IdsOf(notes) = <<1, 2>>
    /\ notes[1] = res.body.data

\* C26: the id counter changes only in a create answered 201, and then by
\* one: a create answered 400 takes no id, so the ids the 201 responses
\* carried are 1, 2, 3, ... in this order.
C26_OnlyCreateAdvancesCounter ==
    [][ /\ nextId' # nextId =>
              (Called("createNote") /\ res'.status = 201 /\ nextId' = nextId + 1)
        /\ (Called("createNote") /\ res'.status = 201) => nextId' = nextId + 1
        /\ \A i \in 1..Len(issued') : issued'[i] = i
      ]_vars

\* a create was rejected after a create succeeded: the counter is still 2
C26_Witness ==
    /\ req.op = "createNote" /\ res.status = 400
    /\ issued = <<1>>
    /\ nextId = 2

\* C27: the stored ids are distinct, at least 1 and below the id counter,
\* and increase along the array; the counter is 1 plus the number of 201
\* creates and the store holds as many notes as there were 201 creates
\* less 200 deletes.
C27_StoreShape ==
    /\ \A i, j \in 1..Len(notes) : i < j => notes[i].id < notes[j].id
    /\ \A i \in 1..Len(notes) : notes[i].id >= 1 /\ notes[i].id < nextId
    /\ Cardinality(Present(notes)) = Len(notes)
    /\ nextId = 1 + Len(issued)
    /\ Len(notes) = Len(issued) - Cardinality(deleted)

\* a note was created after the delete of an older one
C27_Witness ==
    /\ req.op = "createNote" /\ res.status = 201
    /\ deleted # {}
    /\ Len(issued) = 2
    /\ Len(notes) = 1

\* C28: once a delete of id K was answered 200, every delete of K and
\* every update of K is answered 404 and leaves the stored notes and the
\* id counter as they were.
C28_DeletedStaysDeleted ==
    [][ ((Called("deleteNote") \/ Called("updateNote"))
           /\ \E k \in deleted : req'.id = String(k))
          => (res' = NotFoundError /\ notes' = notes /\ nextId' = nextId)
      ]_vars

\* the second delete of a deleted id was answered 404 while another note is
\* stored
C28_Witness ==
    /\ req.op = "deleteNote" /\ res = NotFoundError
    /\ \E k \in deleted : req.id = String(k)
    /\ notes # <<>>

(***************************************************************************)
(* Creates whose texts have white space at the ends, markup and quote      *)
(* characters, or many characters.                                         *)
(***************************************************************************)
WrittenTitles ==
    {Str(" T "), Str("<b>T & 'T'</b>"),
     Str("TTTTTTTTTTTTTTTTTTTTTTTTTTTTTTTTTTTTTTTTTTTTTTTTTTTTTTTTTTTTTTTT")}
WrittenContents == {Str(" T "), Str("C\n\tC")}
WrittenBodies == [title : WrittenTitles, content : WrittenContents]

CreateWritten == Call /\ (\E body \in WrittenBodies : createNote(body)) /\ Observe

NextWritten == CreateWritten \/ Get \/ Delete

SpecWritten == Init /\ [][NextWritten]_vars

\* C21: a create answered 201 returns and stores the title and the content
\* of its request as they are, whatever characters and however many they
\* have, and a getById of the note answers with the same two values.
C21_TextsKeptAsSupplied ==
    [][ /\ (Called("createNote") /\ res'.status = 201) =>
              /\ res'.body.data.title = req'.body.title
              /\ res'.body.data.content = req'.body.content
              /\ notes'[Len(notes')] = res'.body.data
        /\ (Called("getNoteById") /\ res'.status = 200) =>
              \E n \in intact' :
                  /\ n.id = res'.body.data.id
                  /\ n.title = res'.body.data.title
                  /\ n.content = res'.body.data.content
      ]_vars

\* a getById returned a title with white space at its ends
C21_Witness ==
    /\ req.op = "getNoteById" /\ res.status = 200
    /\ res.body.data.title = Str(" T ")
    /\ res.body.data.content = Str("C\n\tC")

(***************************************************************************)
(* express.json() hands the handlers whatever JSON the client sent: title  *)
(* and content can be a number, a boolean, null or an object.              *)
(***************************************************************************)
Null == [t |-> "null", v |-> "null"]
True == [t |-> "boolean", v |-> "true"]
Five == [t |-> "number", v |-> "5"]
EmptyObject == [t |-> "object", v |-> "{}"]

JsonValues == {Undefined, Str("T"), Null, True, Five, EmptyObject}
JsonBodies == [title : JsonValues, content : {Str("C"), Five}]

CreateJson == Call /\ (\E body \in JsonBodies : createNote(body)) /\ Observe
UpdateJson ==
    Call /\ (\E id \in IdTexts, body \in JsonBodies : updateNote(id, body)) /\ Observe

NextJson == CreateJson \/ UpdateJson \/ Get

SpecJson == Init /\ [][NextJson]_vars

\* C22: every stored note has an id that is a positive integer and a title
\* and a content that are texts, whatever JSON values create and update
\* requests carry.
C22_StoredNotesAreTexts ==
    \A n \in Stored(notes) :
        /\ n.id \in Nat /\ n.id >= 1
        /\ n.title.t = "string"
        /\ n.content.t = "string"

(***************************************************************************)
(* A request that reaches a handler with req.body undefined (no body       *)
(* parser ran for it): const { title, content } = req.body throws a        *)
(* TypeError, the first statement of createNote and the second of          *)
(* updateNote, and the catch block answers.                                *)
(***************************************************************************)
createNoteWithoutBody ==
    /\ req' = [op |-> "createNote", body |-> Undefined]
    /\ res' = Caught("Error creating note")
    /\ UNCHANGED <<notes, nextId, now>>

\* updateNote with the destructuring of req.body after the 404 return
updateNoteWithoutBodyLookupFirst(id) ==
    LET noteIndex == findIndex(notes, id)
    IN  /\ req' = [op |-> "updateNote", id |-> id, body |-> Undefined]
        /\ res' = IF noteIndex = -1 THEN NotFound ELSE Caught("Error updating note")
        /\ UNCHANGED <<notes, nextId, now>>

\* line 98 throws before line 100 looks the id up
updateNoteWithoutBody(id) ==
    /\ req' = [op |-> "updateNote", id |-> id, body |-> Undefined]
    /\ res' = Caught("Error updating note")
    /\ UNCHANGED <<notes, nextId, now>>

CreateWithoutBody == Call /\ createNoteWithoutBody /\ Observe
UpdateWithoutBody == Call /\ (\E id \in IdTexts : updateNoteWithoutBody(id)) /\ Observe

NextWithoutBody == Create \/ Delete \/ CreateWithoutBody \/ UpdateWithoutBody

SpecWithoutBody == Init /\ [][NextWithoutBody]_vars

\* C30: a create or an update whose request has no parsed body answers 500
\* with success false, a message and an error text, and leaves the stored
\* notes and the id counter as they were; the update does so whether its
\* id names a stored note or not.
C30_FaultBeforeStoreIs500 ==
    [][ ((Called("createNote") \/ Called("updateNote")) /\ req'.body = Undefined)
          => /\ res'.status = 500
             /\ res'.body.success = FALSE
             /\ {"message", "error"} \subseteq DOMAIN res'.body
             /\ notes' = notes
             /\ nextId' = nextId
      ]_vars

\* an update without a body named an id that no stored note has and was
\* answered 500
C30_Witness ==
    /\ req.op = "updateNote" /\ req.body = Undefined
    /\ res.status = 500
    /\ req.id = String(2)
    /\ IdsOf(notes) = <<1>>

(***************************************************************************)
(* The res.json calls of one handler call, in the order the statements     *)
(* make them.  A `return res.status(...).json(...)` ends the handler; when *)
(* the response call of the try block throws (throws = TRUE) it sends      *)
(* nothing and the catch block makes the one call left.                    *)
(***************************************************************************)
\* createNote without the return before res.status(400): after the 400 the
\* handler goes on to create the note and to answer 201
createNoteSendsWithoutReturn(body, throws) ==
    IF throws THEN <<500>>
    ELSE IF invalid(body.title, body.content) THEN <<400, 201>> ELSE <<201>>

createNoteSends(body, throws) ==
    IF throws THEN <<500>>
    ELSE IF invalid(body.title, body.content) THEN <<400>> ELSE <<201>>

getAllNotesSends(throws) == IF throws THEN <<500>> ELSE <<200>>

getNoteByIdSends(id, throws) ==
    IF throws THEN <<500>>
    ELSE IF find(notes, id) = <<>> THEN <<404>> ELSE <<200>>

updateNoteSends(id, throws) ==
    IF throws THEN <<500>>
    ELSE IF findIndex(notes, id) = -1 THEN <<404>> ELSE <<200>>

deleteNoteSends(id, throws) ==
    IF throws THEN <<500>>
    ELSE IF findIndex(notes, id) = -1 THEN <<404>> ELSE <<200>>

\* one more handler call whose res.json calls are followed
Sending == OneMoreCall /\ UNCHANGED <<inflight, replies>>

CreateSending ==
    /\ Sending
    /\ \E body \in FaultBodies, throws \in BOOLEAN :
          /\ IF throws THEN createNoteCaught(body) ELSE createNote(body)
          /\ sent' = createNoteSends(body, throws)
    /\ Observe
ListSending ==
    /\ Sending
    /\ \E throws \in BOOLEAN :
          /\ IF throws THEN getAllNotesCaught ELSE getAllNotes
          /\ sent' = getAllNotesSends(throws)
    /\ Observe
GetSending ==
    /\ Sending
    /\ \E id \in IdTexts, throws \in BOOLEAN :
          /\ IF throws THEN getNoteByIdCaught(id) ELSE getNoteById(id)
          /\ sent' = getNoteByIdSends(id, throws)
    /\ Observe
UpdateSending ==
    /\ Sending
    /\ \E id \in IdTexts, body \in FaultBodies, throws \in BOOLEAN :
          /\ IF throws THEN updateNoteCaught(id, body) ELSE updateNote(id, body)
          /\ sent' = updateNoteSends(id, throws)
    /\ Observe
DeleteSending ==
    /\ Sending
    /\ \E id \in IdTexts, throws \in BOOLEAN :
          /\ IF throws THEN deleteNoteCaught(id) ELSE deleteNote(id)
          /\ sent' = deleteNoteSends(id, throws)
    /\ Observe

NextSends ==
    CreateSending \/ ListSending \/ GetSending \/ UpdateSending \/ DeleteSending

SpecSends == Init /\ [][NextSends]_vars

\* C29: every handler call has returned with exactly one envelope sent,
\* the one the response shows, on the 201/200 path, on the 400 and 404
\* paths and on the 500 path.
C29_ExactlyOneEnvelope ==
    calls > 0 =>
        /\ Len(sent) = 1
        /\ sent[1] = res.status
        /\ res.status \in {200, 201, 400, 404, 500}
        /\ "success" \in DOMAIN res.body

\* a delete ended in its catch block at the last explored call, with a
\* note in the store: one envelope, the 500
C29_Witness ==
    /\ sent = <<500>>
    /\ req.op = "deleteNote"
    /\ notes # <<>>
    /\ calls = MaxCalls

====
